---------------------------- MODULE Spec2Model ----------------------------
(***************************************************************************)
(* Model of the e-commerce API of src/app.py: the four tables (user,       *)
(* product, order, order_product) with the constraints their columns       *)
(* declare, the SQLAlchemy session a request works in, and one action per  *)
(* request handler.  Schema loading follows marshmallow-sqlalchemy with    *)
(* load_instance = True: a payload that carries the primary key of a       *)
(* stored row loads that row and sets the payload's keys on it; otherwise  *)
(* a new, transient instance is built.                                     *)
(*                                                                         *)
(* Not modelled: order_date, the nested "products" key of an order         *)
(* payload, and the read-only list endpoints.                              *)
(***************************************************************************)
EXTENDS Integers, FiniteSets, Bags, TLC

VARIABLES
    db,              \* the committed tables
    session,         \* db.session: the open transaction's view, if any
    last,            \* the last request and its response
    added,           \* the add_product_to_order that just succeeded, if any
    reqs             \* concurrent requests in flight (SpecConc only)

vars == <<db, session, last, added, reqs>>

(***************************** bounds and values ***************************)

MaxId == 2                \* ids of the entity a specification is about
MinId == 1                \* ids of the entities it only needs to exist
NumReqs == 2              \* requests served at the same time (SpecConc)

NULL == 0                 \* None / key absent, for integer columns
Absent == "absent"        \* key absent from the JSON payload, string columns
TooLong == "too_long"     \* a string longer than the column's String(n)

Names == {"n1", "n2"}
Addresses == {"a1"}
Emails == {"e1", "e2"}

\* request payloads: a key is absent (NULL, Absent) or carries a value
UserJson(ids, names, addresses, emails) ==
    [id : ids, name : names, address : addresses, email : emails]

ProductJson(ids, names, prices) == [id : ids, product_name : names, price : prices]

OrderJson(ids, user_ids) == [id : ids, user_id : user_ids]

(********************************* tables **********************************)

Rows(t) == BagToSet(t)
Insert(t, row) == t (+) SetToBag({row})
Delete(t, row) == t (-) SetToBag({row})
Get(t, id) == {r \in Rows(t) : r.id = id}
Exists(t, id) == Get(t, id) # {}
Row(t, id) == CHOOSE r \in Get(t, id) : TRUE

EmptyTables ==
    [user |-> EmptyBag, product |-> EmptyBag,
     order |-> EmptyBag, order_product |-> EmptyBag]

\* primary_key=True: one row per key
PrimaryKey(t) ==
    \A r1 \in Rows(t) :
        /\ CopiesIn(r1, t) = 1
        /\ \A r2 \in Rows(t) : r1.id = r2.id => r1 = r2

\* mutant: the email column without unique=True
user_email_not_unique(T) == TRUE

\* User.email: unique=True
user_email_unique(T) ==
    \A r1, r2 \in Rows(T.user) : r1.email = r2.email => r1.id = r2.id

\* Order.user_id: nullable=False
order_user_id_not_null(T) == \A o \in Rows(T.order) : o.user_id # NULL

\* mutant: user_id without its ForeignKey
order_user_id_no_fk(T) == TRUE

\* Order.user_id: ForeignKey('user.id')
order_user_id_fk(T) ==
    \A o \in Rows(T.order) : o.user_id # NULL => Exists(T.user, o.user_id)

\* OrderProduct: composite primary key / unique_order_product
unique_order_product(T) ==
    \A r \in Rows(T.order_product) : CopiesIn(r, T.order_product) = 1

\* mutant: order_product without its ForeignKeys
order_product_no_fk(T) == TRUE

\* OrderProduct.order_id, OrderProduct.product_id: ForeignKey
order_product_fk(T) ==
    \A r \in Rows(T.order_product) :
        /\ \E o \in Rows(T.order) : o.id = r.order_id
        /\ \E p \in Rows(T.product) : p.id = r.product_id

\* what the store accepts: a flush that leaves the tables otherwise raises
\* IntegrityError
IntegrityOK(T) ==
    /\ PrimaryKey(T.user) /\ PrimaryKey(T.product) /\ PrimaryKey(T.order)
    /\ user_email_unique(T)
    /\ order_user_id_not_null(T) /\ order_user_id_fk(T)
    /\ unique_order_product(T) /\ order_product_fk(T)

(******************************** session **********************************)

NoSession == [active |-> FALSE, tables |-> EmptyTables]
Open(T) == [active |-> TRUE, tables |-> T]

\* the transaction a handler's first statement runs in
Begin == IF session.active THEN session.tables ELSE db

\* mutant: the failed transaction's changes are kept
rollback_skipped(committed, work) == work

\* db.session.rollback(): the transaction's changes are discarded
rollback(committed, work) == committed

\* Flask-SQLAlchemy removes the scoped session when the request ends
shutdown_session(s) == NoSession

\* autoincrement=True: an INSERT without id is given an id above every id
\* stored in the table (which one, the store's counter decides)
AutoIds(t, ids) == {i \in ids : \A r \in Rows(t) : r.id < i}

Response(status, body, T, s) ==
    [status |-> status, body |-> body, tables |-> T, session |-> s]

(***************************** schema loading ******************************)

\* ValidationError of user_schema.load: required keys, Length(max)
UserValid(json, partial) ==
    /\ json.name # TooLong
    /\ ~partial => json.name # Absent /\ json.address # Absent /\ json.email # Absent

ProductValid(json, partial) ==
    /\ json.product_name # TooLong
    /\ ~partial => json.product_name # Absent /\ json.price # NULL

OrderValid(json) == json.user_id # NULL

\* setattr(instance, key, value) for every key of the payload
SetUser(row, json) ==
    [id      |-> IF json.id = NULL THEN row.id ELSE json.id,
     name    |-> IF json.name = Absent THEN row.name ELSE json.name,
     address |-> IF json.address = Absent THEN row.address ELSE json.address,
     email   |-> IF json.email = Absent THEN row.email ELSE json.email]

SetProduct(row, json) ==
    [id           |-> IF json.id = NULL THEN row.id ELSE json.id,
     product_name |-> IF json.product_name = Absent THEN row.product_name
                      ELSE json.product_name,
     price        |-> IF json.price = NULL THEN row.price ELSE json.price]

SetOrder(row, json) ==
    [id      |-> IF json.id = NULL THEN row.id ELSE json.id,
     user_id |-> IF json.user_id = NULL THEN row.user_id ELSE json.user_id]

Update(t, old, new) == Insert(Delete(t, old), new)


(***************************** user endpoints ******************************)

get_user_response(id) ==
    IF Exists(Begin.user, id)
    THEN Response(200, "user", db, Open(Begin))
    ELSE Response(404, "NotFound", db, Open(Begin))

add_user_response(json, new_id) ==
    LET T0 == Begin IN
    IF ~UserValid(json, FALSE)
    THEN Response(400, "ValidationError", db, session)
    ELSE
        \* load_instance: the stored row with the payload's id, if any
        LET found == json.id # NULL /\ Exists(T0.user, json.id)
            T1 == IF found
                  THEN [T0 EXCEPT !.user =
                            Update(@, Row(T0.user, json.id),
                                   SetUser(Row(T0.user, json.id), json))]
                  ELSE T0
        IN
        \* User.query.filter_by(email=...).first() flushes the session
        \* first; it is outside every try block
        IF ~IntegrityOK(T1)
        THEN Response(500, "IntegrityError", db, Open(T1))
        ELSE IF \E u \in Rows(T1.user) : u.email = json.email
        THEN Response(400, "User with this email already exists", db, Open(T1))
        ELSE
            LET id == IF json.id = NULL THEN new_id ELSE json.id
                T2 == [T1 EXCEPT !.user =
                          Insert(@, [id |-> id, name |-> json.name,
                                     address |-> json.address,
                                     email |-> json.email])]
            IN IF IntegrityOK(T2)
               THEN Response(201, "New user added successfully!", T2, NoSession)
               ELSE Response(500, "IntegrityError", rollback(db, T2), NoSession)

update_user_response(id, json) ==
    LET T0 == Begin IN
    IF ~Exists(T0.user, id)
    THEN Response(404, "NotFound", db, Open(T0))
    ELSE IF ~UserValid(json, TRUE)
    THEN Response(400, "ValidationError", db, Open(T0))
    ELSE
        LET old == Row(T0.user, id)
            new == SetUser(old, json)
            T1 == [T0 EXCEPT !.user = Update(@, old, new)]
        IN IF IntegrityOK(T1)
           THEN Response(200, "user", T1, NoSession)
           ELSE Response(500, "IntegrityError", rollback(db, T1), NoSession)

\* db.session.delete(user): the user's orders are detached (user_id = NULL),
\* the relationship having no delete cascade
DetachOrders(t, uid) ==
    SetToBag({IF o.user_id = uid THEN [o EXCEPT !.user_id = NULL] ELSE o :
              o \in Rows(t)})

delete_user_response(id) ==
    LET T0 == Begin IN
    \* get_or_404 is inside the try: NotFound is caught by except Exception
    IF ~Exists(T0.user, id)
    THEN Response(500, "NotFound", rollback(db, T0), NoSession)
    ELSE
        LET T1 == [T0 EXCEPT !.user = Delete(@, Row(T0.user, id)),
                             !.order = DetachOrders(@, id)]
        IN IF IntegrityOK(T1)
           THEN Response(200, "User deleted", T1, NoSession)
           ELSE Response(500, "IntegrityError", rollback(db, T1), NoSession)

(**************************** product endpoints ****************************)

get_product_response(id) ==
    IF Exists(Begin.product, id)
    THEN Response(200, "product", db, Open(Begin))
    ELSE Response(404, "NotFound", db, Open(Begin))

create_product_response(json, new_id) ==
    LET T0 == Begin IN
    IF ~ProductValid(json, FALSE)
    THEN Response(400, "ValidationError", db, session)
    ELSE
        LET found == json.id # NULL /\ Exists(T0.product, json.id)
            id == IF json.id = NULL THEN new_id ELSE json.id
            T1 == IF found
                  THEN [T0 EXCEPT !.product =
                            Update(@, Row(T0.product, json.id),
                                   SetProduct(Row(T0.product, json.id), json))]
                  ELSE [T0 EXCEPT !.product =
                            Insert(@, [id |-> id,
                                       product_name |-> json.product_name,
                                       price |-> json.price])]
        IN IF IntegrityOK(T1)
           THEN Response(201, "product", T1, NoSession)
           ELSE Response(500, "IntegrityError", rollback(db, T1), NoSession)

update_product_response(id, json) ==
    LET T0 == Begin IN
    IF ~Exists(T0.product, id)
    THEN Response(404, "NotFound", db, Open(T0))
    ELSE IF ~ProductValid(json, TRUE)
    THEN Response(400, "ValidationError", db, Open(T0))
    ELSE
        LET old == Row(T0.product, id)
            new == SetProduct(old, json)
            T1 == [T0 EXCEPT !.product = Update(@, old, new)]
        IN IF IntegrityOK(T1)
           THEN Response(200, "product", T1, NoSession)
           ELSE Response(500, "IntegrityError", rollback(db, T1), NoSession)

\* db.session.delete(product): the rows of the secondary table that link
\* the product are deleted with it
Unlink(t, pid) == SetToBag({r \in Rows(t) : r.product_id # pid})

delete_product_response(id) ==
    LET T0 == Begin IN
    IF ~Exists(T0.product, id)
    THEN Response(500, "NotFound", rollback(db, T0), NoSession)
    ELSE
        LET T1 == [T0 EXCEPT !.product = Delete(@, Row(T0.product, id)),
                             !.order_product = Unlink(@, id)]
        IN IF IntegrityOK(T1)
           THEN Response(200, "Product deleted", T1, NoSession)
           ELSE Response(500, "IntegrityError", rollback(db, T1), NoSession)

(***************************** order endpoints *****************************)

create_order_response(json, new_id) ==
    LET T0 == Begin IN
    IF ~OrderValid(json)
    THEN Response(400, "ValidationError", db, session)
    ELSE
        LET found == json.id # NULL /\ Exists(T0.order, json.id)
            id == IF json.id = NULL THEN new_id ELSE json.id
            T1 == IF found
                  THEN [T0 EXCEPT !.order =
                            Update(@, Row(T0.order, json.id),
                                   SetOrder(Row(T0.order, json.id), json))]
                  ELSE [T0 EXCEPT !.order =
                            Insert(@, [id |-> id, user_id |-> json.user_id])]
        IN IF IntegrityOK(T1)
           THEN Response(201, "order", T1, NoSession)
           ELSE Response(500, "IntegrityError", rollback(db, T1), NoSession)

Link(order_id, product_id) == [order_id |-> order_id, product_id |-> product_id]

\* order.products.append(product), order.products.remove(product): the row
\* of order_product the flush inserts or deletes
products_append(t, order_id, product_id) == Insert(t, Link(order_id, product_id))
\* mutant: remove takes the product out of every order
products_remove_everywhere(t, order_id, product_id) ==
    SetToBag({r \in Rows(t) : r.product_id # product_id})

products_remove(t, order_id, product_id) == Delete(t, Link(order_id, product_id))

\* mutant: the membership test never finds the product
InOrder_never(T, order_id, product_id) == FALSE

\* product in order.products
InOrder(T, order_id, product_id) ==
    BagIn(Link(order_id, product_id), T.order_product)

add_product_to_order_response(order_id, product_id) ==
    LET T0 == Begin IN
    IF ~Exists(T0.order, order_id) \/ ~Exists(T0.product, product_id)
    THEN Response(404, "NotFound", db, Open(T0))
    ELSE IF InOrder(T0, order_id, product_id)
    THEN Response(400, "Product already in order", db, Open(T0))
    ELSE
        LET T1 == [T0 EXCEPT !.order_product = products_append(@, order_id, product_id)]
        IN IF IntegrityOK(T1)
           THEN Response(200, "order", T1, NoSession)
           ELSE Response(500, "IntegrityError", rollback(db, T1), NoSession)

remove_product_from_order_response(order_id, product_id) ==
    LET T0 == Begin IN
    IF ~Exists(T0.order, order_id) \/ ~Exists(T0.product, product_id)
    THEN Response(404, "NotFound", db, Open(T0))
    ELSE IF ~InOrder(T0, order_id, product_id)
    THEN Response(400, "Product not in order", db, Open(T0))
    ELSE
        LET T1 == [T0 EXCEPT !.order_product = products_remove(@, order_id, product_id)]
        IN IF IntegrityOK(T1)
           THEN Response(200, "Product removed from order", T1, NoSession)
           ELSE Response(500, "IntegrityError", rollback(db, T1), NoSession)

(******************************** requests *********************************)

NoRequest == [op |-> "none", url |-> <<>>, status |-> 0, body |-> ""]

\* added: the pair a successful add_product_to_order linked and the rows of
\* order_product before it; kept for the one request that follows the add,
\* when that request is about the same pair or deletes the same product
NoAdd == [link |-> <<>>, order_product |-> EmptyBag]

\* one request, served alone: the handler, then the end of the request
Serve(op, url, r) ==
    /\ db' = r.tables
    /\ session' = shutdown_session(r.session)
    /\ last' = [op |-> op, url |-> url, status |-> r.status, body |-> r.body]
    /\ added' =
          IF op = "add_product_to_order" /\ r.status = 200
          THEN [link |-> url, order_product |-> db.order_product]
          ELSE IF /\ last.op = "add_product_to_order" /\ last.status = 200
                  /\ \/ url = added.link
                     \/ op = "delete_product" /\ url = <<added.link[2]>>
          THEN added
          ELSE NoAdd
    /\ UNCHANGED reqs

\* the id an INSERT of `json` into `t` is given: the payload's, or the store's
NewIds(t, json, ids) == IF json.id = NULL THEN AutoIds(t, ids) ELSE {json.id}

get_user(id) == Serve("get_user", <<id>>, get_user_response(id))

add_user(json, ids) ==
    \E new_id \in NewIds(db.user, json, ids) :
        Serve("add_user", <<>>, add_user_response(json, new_id))

update_user(id, json) ==
    Serve("update_user", <<id>>, update_user_response(id, json))

delete_user(id) == Serve("delete_user", <<id>>, delete_user_response(id))

get_product(id) == Serve("get_product", <<id>>, get_product_response(id))

create_product(json, ids) ==
    \E new_id \in NewIds(db.product, json, ids) :
        Serve("create_product", <<>>, create_product_response(json, new_id))

update_product(id, json) ==
    Serve("update_product", <<id>>, update_product_response(id, json))

delete_product(id) == Serve("delete_product", <<id>>, delete_product_response(id))

create_order(json, ids) ==
    \E new_id \in NewIds(db.order, json, ids) :
        Serve("create_order", <<>>, create_order_response(json, new_id))

add_product_to_order(order_id, product_id) ==
    Serve("add_product_to_order", <<order_id, product_id>>,
          add_product_to_order_response(order_id, product_id))

remove_product_from_order(order_id, product_id) ==
    Serve("remove_product_from_order", <<order_id, product_id>>,
          remove_product_from_order_response(order_id, product_id))

\* db.create_all() on an empty database
Init ==
    /\ db = EmptyTables
    /\ session = NoSession
    /\ last = NoRequest
    /\ added = NoAdd
    /\ reqs = <<>>

(***************************************************************************)
(* Spec: every endpoint, over MaxId users and MinId products and orders.   *)
(***************************************************************************)
UserIds == 1..MaxId
ItemIds == 1..MinId

SomeUserJson ==
    UserJson(UserIds \cup {NULL}, {"n1", Absent}, {"a1"}, Emails \cup {Absent})
SomeProductJson == ProductJson(ItemIds \cup {NULL}, {"p1", TooLong}, {10, NULL})
SomeOrderJson == OrderJson(ItemIds \cup {NULL}, UserIds \cup {NULL})

Next ==
    \/ \E id \in UserIds : get_user(id)
    \/ \E json \in SomeUserJson : add_user(json, UserIds)
    \/ \E id \in UserIds, json \in SomeUserJson : update_user(id, json)
    \/ \E id \in UserIds : delete_user(id)
    \/ \E id \in ItemIds : get_product(id)
    \/ \E json \in SomeProductJson : create_product(json, ItemIds)
    \/ \E id \in ItemIds, json \in SomeProductJson : update_product(id, json)
    \/ \E id \in ItemIds : delete_product(id)
    \/ \E json \in SomeOrderJson : create_order(json, ItemIds)
    \/ \E o \in ItemIds, p \in ItemIds : add_product_to_order(o, p)
    \/ \E o \in ItemIds, p \in ItemIds : remove_product_from_order(o, p)

Spec == Init /\ [][Next]_vars

(***************************************************************************)
(* SpecUsers: the user endpoints and create_order, over MaxId users with   *)
(* every payload, and MinId orders.                                        *)
(***************************************************************************)
AnyUserJson ==
    UserJson(UserIds \cup {NULL}, Names \cup {Absent, TooLong},
             Addresses \cup {Absent}, Emails \cup {Absent})

NextUsers ==
    \/ \E id \in UserIds : get_user(id)
    \/ \E json \in AnyUserJson : add_user(json, UserIds)
    \/ \E id \in UserIds, json \in AnyUserJson : update_user(id, json)
    \/ \E id \in UserIds : delete_user(id)
    \/ \E json \in SomeOrderJson : create_order(json, ItemIds)

SpecUsers == Init /\ [][NextUsers]_vars

(***************************************************************************)
(* SpecCatalog: the product and order endpoints, over MaxId products with  *)
(* every payload, MinId orders and MinId users.                            *)
(***************************************************************************)
CatalogIds == 1..MaxId
OwnerIds == 1..MinId

OwnerJson == UserJson({NULL}, {"n1"}, {"a1"}, {"e1"})
AnyProductJson ==
    ProductJson(CatalogIds \cup {NULL}, {"p1", Absent, TooLong}, {10, NULL})

NextCatalog ==
    \/ \E json \in OwnerJson : add_user(json, OwnerIds)
    \/ \E id \in CatalogIds : get_product(id)
    \/ \E json \in AnyProductJson : create_product(json, CatalogIds)
    \/ \E id \in CatalogIds, json \in AnyProductJson : update_product(id, json)
    \/ \E id \in CatalogIds : delete_product(id)
    \/ \E json \in SomeOrderJson : create_order(json, ItemIds)
    \/ \E o \in ItemIds, p \in CatalogIds : add_product_to_order(o, p)
    \/ \E o \in ItemIds, p \in CatalogIds : remove_product_from_order(o, p)

SpecCatalog == Init /\ [][NextCatalog]_vars

(***************************************************************************)
(* SpecOrders: the order endpoints, over MaxId orders, MinId products and  *)
(* MinId users.                                                            *)
(***************************************************************************)
OrderIds == 1..MaxId

AnyOrderJson == OrderJson(OrderIds \cup {NULL}, OwnerIds \cup {NULL})

NextOrders ==
    \/ \E json \in OwnerJson : add_user(json, OwnerIds)
    \/ \E json \in SomeProductJson : create_product(json, ItemIds)
    \/ \E id \in ItemIds : delete_product(id)
    \/ \E json \in AnyOrderJson : create_order(json, OrderIds)
    \/ \E o \in OrderIds, p \in ItemIds : add_product_to_order(o, p)
    \/ \E o \in OrderIds, p \in ItemIds : remove_product_from_order(o, p)

SpecOrders == Init /\ [][NextOrders]_vars

(***************************************************************************)
(* SpecConc: NumReqs add_user / update_user requests served at the same    *)
(* time, each with its own session and transaction.  A request's reads     *)
(* see the committed rows; db.session.commit() is two steps, the flush     *)
(* (the INSERT or UPDATE, checked by the store against the committed rows  *)
(* and waiting for any uncommitted row that holds the same key) and the    *)
(* COMMIT.  The requests of a batch start together and take their steps    *)
(* in any order.                                                           *)
(***************************************************************************)
Slots == 1..NumReqs

NoRow == [id |-> NULL, name |-> Absent, address |-> Absent, email |-> Absent]
NoTx == [old |-> NoRow, new |-> NoRow]

ConcAddJson == UserJson({NULL}, {"n1"}, {"a1"}, Emails)
ConcUpdateJson == UserJson({NULL}, {Absent}, {Absent}, Emails)

Request(op, id, json, pc) ==
    [op |-> op, id |-> id, json |-> json, pc |-> pc,
     row |-> NoRow, tx |-> NoTx, status |-> 0]

Idle == Request("idle", NULL, NoRow, "done")

Requests ==
    {Request("add_user", NULL, json, "lookup") : json \in ConcAddJson}
    \cup {Request("update_user", id, json, "get") :
            id \in UserIds, json \in ConcUpdateJson}

\* rows other requests have written and not yet committed
Uncommitted(r) ==
    {reqs[q].tx : q \in {q \in Slots \ {r} :
                           reqs[q].pc = "commit" /\ reqs[q].tx # NoTx}}

\* the write of `new` over `old` waits for an uncommitted write that holds
\* the same id or the same email
Waits(r, old, new) ==
    \E t \in Uncommitted(r) :
        \/ {t.old.email, t.new.email} \cap {old.email, new.email} # {}
        \/ ({t.old.id, t.new.id} \cap {old.id, new.id}) \ {NULL} # {}

Answer(r, status) == [reqs EXCEPT ![r].pc = "done", ![r].status = status]

\* a batch of requests arrives once the previous one has been answered
receive ==
    /\ \A r \in Slots : reqs[r].pc = "done"
    /\ \E batch \in [Slots -> Requests] : reqs' = batch
    /\ UNCHANGED <<db, session, last, added>>

\* existing_user = User.query.filter_by(email=...).first()
add_user_lookup(r) ==
    /\ reqs[r].op = "add_user" /\ reqs[r].pc = "lookup"
    /\ reqs' = IF \E u \in Rows(db.user) : u.email = reqs[r].json.email
               THEN Answer(r, 400)
               ELSE [reqs EXCEPT ![r].pc = "flush"]
    /\ UNCHANGED <<db, session, last, added>>

\* db.session.add(user_data); db.session.commit(): the INSERT
add_user_flush(r) ==
    /\ reqs[r].op = "add_user" /\ reqs[r].pc = "flush"
    /\ \E new_id \in AutoIds(db.user (+) SetToBag({t.new : t \in Uncommitted(r)}),
                             UserIds) :
        LET json == reqs[r].json
            new == [id |-> new_id, name |-> json.name,
                    address |-> json.address, email |-> json.email]
            T1 == [db EXCEPT !.user = Insert(@, new)]
        IN /\ ~Waits(r, NoRow, new)
           /\ reqs' = IF IntegrityOK(T1)
                      THEN [reqs EXCEPT ![r].pc = "commit",
                                        ![r].tx = [old |-> NoRow, new |-> new]]
                      ELSE Answer(r, 500)
    /\ UNCHANGED <<db, session, last, added>>

\* db.session.commit(): the COMMIT
add_user_commit(r) ==
    /\ reqs[r].op = "add_user" /\ reqs[r].pc = "commit"
    /\ db' = [db EXCEPT !.user = Insert(@, reqs[r].tx.new)]
    /\ reqs' = Answer(r, 201)
    /\ UNCHANGED <<session, last, added>>

\* user = User.query.get_or_404(id)
update_user_get(r) ==
    /\ reqs[r].op = "update_user" /\ reqs[r].pc = "get"
    /\ reqs' = IF Exists(db.user, reqs[r].id)
               THEN [reqs EXCEPT ![r].pc = "flush",
                                 ![r].row = Row(db.user, reqs[r].id)]
               ELSE Answer(r, 404)
    /\ UNCHANGED <<db, session, last, added>>

\* user_schema.load(..., instance=user, partial=True); db.session.commit():
\* the UPDATE of the columns whose loaded value the payload changed
update_user_flush(r) ==
    /\ reqs[r].op = "update_user" /\ reqs[r].pc = "flush"
    /\ LET loaded == reqs[r].row
           set == SetUser(loaded, reqs[r].json)
           old == Row(db.user, reqs[r].id)
           new == [old EXCEPT
                     !.name = IF set.name # loaded.name THEN set.name ELSE @,
                     !.address = IF set.address # loaded.address
                                 THEN set.address ELSE @,
                     !.email = IF set.email # loaded.email THEN set.email ELSE @]
           T1 == [db EXCEPT !.user = Update(@, old, new)]
       IN IF set = loaded
          THEN reqs' = [reqs EXCEPT ![r].pc = "commit"]
          ELSE /\ ~Waits(r, old, new)
               /\ reqs' = IF IntegrityOK(T1)
                          THEN [reqs EXCEPT ![r].pc = "commit",
                                            ![r].tx = [old |-> old, new |-> new]]
                          ELSE Answer(r, 500)
    /\ UNCHANGED <<db, session, last, added>>

update_user_commit(r) ==
    /\ reqs[r].op = "update_user" /\ reqs[r].pc = "commit"
    /\ db' = IF reqs[r].tx = NoTx THEN db
             ELSE [db EXCEPT !.user = Update(@, reqs[r].tx.old, reqs[r].tx.new)]
    /\ reqs' = Answer(r, 200)
    /\ UNCHANGED <<session, last, added>>

InitConc ==
    /\ db = EmptyTables
    /\ session = NoSession
    /\ last = NoRequest
    /\ added = NoAdd
    /\ reqs = [r \in Slots |-> Idle]

NextConc ==
    \/ receive
    \/ \E r \in Slots : add_user_lookup(r)
    \/ \E r \in Slots : add_user_flush(r)
    \/ \E r \in Slots : add_user_commit(r)
    \/ \E r \in Slots : update_user_get(r)
    \/ \E r \in Slots : update_user_flush(r)
    \/ \E r \in Slots : update_user_commit(r)

SpecConc == InitConc /\ [][NextConc]_vars

(***************************************************************************)
(*                               Properties                                *)
(***************************************************************************)

Stored(t, id) == \E r \in Rows(t) : r.id = id
Links(T, order_id, product_id) == CopiesIn(Link(order_id, product_id), T.order_product)

\* C1: add_user with a valid payload whose email is the email of a stored
\* User responds 400 and leaves the User rows as they were.
C1_DuplicateEmailIs400 ==
    [][\A json \in AnyUserJson :
          ( /\ UserValid(json, FALSE)
            /\ \E u \in Rows(db.user) : u.email = json.email
            /\ add_user(json, UserIds) )
          => (last'.status = 400 /\ db'.user = db.user)]_vars

\* C1, for payloads that carry no id: the same statement holds.
C1_DuplicateEmailIs400_NoId ==
    [][\A json \in AnyUserJson :
          ( /\ UserValid(json, FALSE) /\ json.id = NULL
            /\ \E u \in Rows(db.user) : u.email = json.email
            /\ add_user(json, UserIds) )
          => (last'.status = 400 /\ db'.user = db.user)]_vars

\* C5: update_user / update_product leave every field not in the payload
\* unchanged and never change the row's id, whatever id the payload carries.
C5_UpdateKeepsIdAndAbsentFields ==
    [][/\ \A id \in UserIds, json \in AnyUserJson :
            (Stored(db.user, id) /\ update_user(id, json)) =>
                /\ Stored(db'.user, id)
                /\ json.name = Absent =>
                       Row(db'.user, id).name = Row(db.user, id).name
                /\ json.address = Absent =>
                       Row(db'.user, id).address = Row(db.user, id).address
                /\ json.email = Absent =>
                       Row(db'.user, id).email = Row(db.user, id).email
       /\ \A id \in CatalogIds, json \in AnyProductJson :
            (Stored(db.product, id) /\ update_product(id, json)) =>
                /\ Stored(db'.product, id)
                /\ json.product_name = Absent =>
                       Row(db'.product, id).product_name
                           = Row(db.product, id).product_name
                /\ json.price = NULL =>
                       Row(db'.product, id).price = Row(db.product, id).price
      ]_vars

\* C6: every stored Order's user_id is the id of a stored User.
C6_OrderReferencesUser ==
    \A o \in Rows(db.order) : Stored(db.user, o.user_id)

\* C6 witness: deleting a User that still has an Order was refused.
C6_Witness ==
    /\ last.op = "delete_user" /\ last.body = "IntegrityError"
    /\ \E o \in Rows(db.order) : o.user_id = last.url[1]

\* C7: delete_user and delete_product respond 404 for an id with no row and
\* leave the store unchanged; for a stored row they remove it and respond 200.
C7_DeleteMissingIs404 ==
    [][/\ last'.op = "delete_user" =>
            IF Stored(db.user, last'.url[1])
            THEN last'.status = 200 => ~Stored(db'.user, last'.url[1])
            ELSE last'.status = 404 /\ db' = db
       /\ last'.op = "delete_product" =>
            IF Stored(db.product, last'.url[1])
            THEN last'.status = 200 => ~Stored(db'.product, last'.url[1])
            ELSE last'.status = 404 /\ db' = db
      ]_vars

\* C8: a request in which the store rejects a write responds 500, leaves
\* the committed tables as they were, and leaves no pending change behind.
C8_RejectedWriteRollsBack ==
    [][last'.body = "IntegrityError" =>
          (last'.status = 500 /\ db' = db /\ session' = NoSession)]_vars

\* C8 witness: a create_order naming a missing User was rejected.
C8_Witness ==
    /\ last.op = "create_order" /\ last.body = "IntegrityError"
    /\ last.status = 500

\* C3: add_product_to_order on a pair that is already linked responds 400
\* "Product already in order", and after an add_product_to_order that found
\* the Order and the Product the pair has exactly one row of order_product.
C3_SecondAddIs400 ==
    [][last'.op = "add_product_to_order" =>
          LET o == last'.url[1]
              p == last'.url[2]
          IN /\ Links(db, o, p) >= 1 =>
                    /\ last'.status = 400
                    /\ last'.body = "Product already in order"
             /\ (Stored(db.order, o) /\ Stored(db.product, p)) =>
                    Links(db', o, p) = 1]_vars

\* C3 witness: the second add_product_to_order of a pair was answered 400.
C3_Witness ==
    /\ last.op = "add_product_to_order" /\ last.status = 400
    /\ added.link = last.url
    /\ Links(db, last.url[1], last.url[2]) = 1

\* C4: when remove_product_from_order(o, p) directly follows a successful
\* add_product_to_order(o, p), it succeeds and the rows of order_product
\* (every Order's products) are what they were before the add.
C4_AddThenRemoveRestores ==
    ( /\ last.op = "remove_product_from_order"
      /\ added.link = last.url )
    => (last.status = 200 /\ db.order_product = added.order_product)

\* C4 witness: such a round trip happened while another Order has products
\* of its own.
C4_Witness ==
    /\ last.op = "remove_product_from_order" /\ added.link = last.url
    /\ last.status = 200
    /\ \E r \in Rows(db.order_product) : r.order_id # last.url[1]

\* C9: right after a successful delete_product(N), get_product(N) responds
\* 404, and N is stored again only by a create that is given N.
C9_DeletedStays404 ==
    [][(last.op = "delete_product" /\ last.status = 200) =>
          LET n == last.url[1]
          IN /\ (last'.op = "get_product" /\ last'.url = <<n>>) =>
                    last'.status = 404
             /\ Stored(db'.product, n) => last'.op = "create_product"]_vars

\* C10: every row of order_product references a stored Order and a stored
\* Product.
C10_LinksReferenceStoredRows ==
    \A r \in Rows(db.order_product) :
        Stored(db.order, r.order_id) /\ Stored(db.product, r.product_id)

\* C10 witness: the Product just linked to an Order was deleted, and the
\* Order, which is still stored, has no row for it.
C10_Witness ==
    /\ last.op = "delete_product" /\ last.status = 200
    /\ added.link # <<>> /\ added.link[2] = last.url[1]
    /\ Stored(db.order, added.link[1])
    /\ Links(db, added.link[1], added.link[2]) = 0

\* C2: under any interleaving of concurrent add_user and update_user
\* requests no two stored Users have the same email, and two add_user
\* requests of a batch of add_user requests that carry the same email do not
\* both respond 201.
C2_UniqueEmailUnderRaces ==
    /\ \A u \in Rows(db.user) :
          /\ CopiesIn(u, db.user) = 1
          /\ \A v \in Rows(db.user) : u.email = v.email => u = v
    /\ (\A r \in Slots : reqs[r].op = "add_user") =>
          \A q, r \in Slots :
              ( /\ q # r /\ reqs[q].json.email = reqs[r].json.email
                /\ reqs[q].pc = "done" /\ reqs[r].pc = "done" )
              => ~(reqs[q].status = 201 /\ reqs[r].status = 201)

\* C2 witness: two add_user requests with the same email both passed the
\* lookup; one was answered 201 and the store rejected the other's INSERT.
C2_Witness ==
    \E q, r \in Slots :
        /\ reqs[q].op = "add_user" /\ reqs[r].op = "add_user"
        /\ reqs[q].json.email = reqs[r].json.email
        /\ reqs[q].status = 201 /\ reqs[r].status = 500
        /\ reqs[q].pc = "done" /\ reqs[r].pc = "done"

=============================================================================
